---- MODULE Spec2Model ----
(***************************************************************************)
(* Tenant OpenSearch provisioning worker: the SQS consumer loop            *)
(* (sqsService.js), the orchestrator processTenantMessage (index.js), the  *)
(* provisioning client (opensearchService.js) and the tenant record store  *)
(* (databaseService.js, config/database.js).                               *)
(*                                                                         *)
(* Strings are sequences of one-character strings, so that the regular     *)
(* expressions of validateMessage and the name derivation of               *)
(* getCollectionName are computed, not assumed.                            *)
(***************************************************************************)
EXTENDS Integers, Sequences, FiniteSets, TLC

(***************************************************************************)
(* Bounds of the model.                                                    *)
(***************************************************************************)
\* number of messages the queue holds
MaxMsgs == 1
\* the maxAttempts argument of waitForCollectionActive (60 by default in the
\* source); the model runs the same loop with a smaller budget
maxAttempts == 3

Workers == {1, 2}
MsgIds == 1..MaxMsgs

(***************************************************************************)
(* Strings.                                                                *)
(***************************************************************************)
Rep(c, n) == [i \in 1..n |-> c]

Digits == {"0", "1", "2", "3", "4", "5", "6", "7", "8", "9"}
LowerHex == {"a", "b", "c", "d", "e", "f"}
UpperHex == {"A", "B", "C", "D", "E", "F"}
Lower == LowerHex \cup {"g", "h", "i", "j", "k", "l", "m", "n", "o", "p", "q",
                        "r", "s", "t", "u", "v", "w", "x", "y", "z"}

\* a property that is absent from a parsed object (JavaScript undefined)
Undefined == <<"undefined">>
\* SQL NULL / JavaScript null / the empty string: all falsy
NULL == <<>>

\* JavaScript truthiness of a property value
Truthy(v) == v # Undefined /\ v # NULL

\* /^[0-9a-f]{8}-[0-9a-f]{4}-[0-9a-f]{4}-[0-9a-f]{4}-[0-9a-f]{12}$/i
uuidRegex(s) ==
    /\ Len(s) = 36
    /\ \A i \in 1..Len(s) :
          IF i \in {9, 14, 19, 24}
          THEN s[i] = "-"
          ELSE s[i] \in Digits \cup LowerHex \cup UpperHex

\* /^[a-z0-9][a-z0-9-]{1,62}[a-z0-9]$/
slugRegex(s) ==
    /\ Len(s) >= 3
    /\ Len(s) <= 64
    /\ s[1] \in Lower \cup Digits
    /\ s[Len(s)] \in Lower \cup Digits
    /\ \A i \in 2..(Len(s) - 1) : s[i] \in Lower \cup Digits \cup {"-"}

\* a faulty validateMessage that forgets the slug pattern (C6 must reject it)
validateMessage_NoSlugCheck(messageBody) ==
    /\ messageBody.type = "object"
    /\ Truthy(messageBody.tenant_id)
    /\ Truthy(messageBody.tenant_slug)
    /\ Truthy(messageBody.timestamp)
    /\ uuidRegex(messageBody.tenant_id)

\* SQSService.validateMessage: messageBody is the parsed value
validateMessage(messageBody) ==
    /\ messageBody.type = "object"
    /\ Truthy(messageBody.tenant_id)
    /\ Truthy(messageBody.tenant_slug)
    /\ Truthy(messageBody.timestamp)
    /\ uuidRegex(messageBody.tenant_id)
    /\ slugRegex(messageBody.tenant_slug)

\* a faulty naming that leaves the prefix out (C27 must reject it)
getCollectionName_NoPrefix(tenantSlug) == tenantSlug

\* OpenSearchService.getCollectionName
getCollectionName(tenantSlug) ==
    <<"a", "c", "c", "r", "e", "d", "a", "-">> \o tenantSlug

(***************************************************************************)
(* Inputs: message bodies, tenant rows.                                    *)
(***************************************************************************)
TenantUuid == Rep("1", 8) \o <<"-">> \o Rep("1", 4) \o <<"-">> \o Rep("1", 4)
              \o <<"-">> \o Rep("1", 4) \o <<"-">> \o Rep("1", 12)
UpperUuid == Rep("A", 8) \o <<"-">> \o Rep("b", 4) \o <<"-">> \o Rep("C", 4)
             \o <<"-">> \o Rep("d", 4) \o <<"-">> \o Rep("E", 12)
ShortUuid == Rep("1", 8) \o <<"-">> \o Rep("1", 4)
NonHexUuid == Rep("g", 8) \o <<"-">> \o Rep("1", 4) \o <<"-">> \o Rep("1", 4)
              \o <<"-">> \o Rep("1", 4) \o <<"-">> \o Rep("1", 12)

AcmeSlug == <<"a", "c", "m", "e", "-", "c", "o", "r", "p">>
OtherSlug == <<"o", "t", "h", "e", "r">>
Stamp == <<"2", "0", "2", "5">>

\* what JSON.parse makes of a message body: a syntax error, or a value
Obj(id, slug, ts) ==
    [syntax |-> "ok", type |-> "object",
     tenant_id |-> id, tenant_slug |-> slug, timestamp |-> ts]
NotJson ==
    [syntax |-> "error", type |-> "none",
     tenant_id |-> Undefined, tenant_slug |-> Undefined, timestamp |-> Undefined]
JsonNull ==
    [syntax |-> "ok", type |-> "null",
     tenant_id |-> Undefined, tenant_slug |-> Undefined, timestamp |-> Undefined]
JsonNumber ==
    [syntax |-> "ok", type |-> "number",
     tenant_id |-> Undefined, tenant_slug |-> Undefined, timestamp |-> Undefined]

ValidBodies == {Obj(TenantUuid, AcmeSlug, Stamp), Obj(UpperUuid, AcmeSlug, Stamp)}
MalformedBodies ==
    { NotJson, JsonNull, JsonNumber,
      Obj(Undefined, AcmeSlug, Stamp),
      Obj(TenantUuid, AcmeSlug, NULL),
      Obj(ShortUuid, AcmeSlug, Stamp),
      Obj(NonHexUuid, AcmeSlug, Stamp),
      Obj(TenantUuid, <<"-", "a", "b">>, Stamp),
      Obj(TenantUuid, <<"a", "b">>, Stamp),
      Obj(TenantUuid, <<"A", "c", "m", "e">>, Stamp),
      Obj(TenantUuid, Rep("a", 65), Stamp) }
Bodies == ValidBodies \cup MalformedBodies
\* the bodies of the messages that are queued behind the first one
LaterBodies ==
    {Obj(TenantUuid, AcmeSlug, Stamp), NotJson, Obj(TenantUuid, <<"a", "b">>, Stamp)}

\* the payload is malformed in the sense of the event schema
Malformed(body) ==
    \/ body.syntax = "error"
    \/ ~validateMessage(body)

ArnOf(name) == <<"arn">> \o name
PriorArn == <<"arn", "p", "r", "i", "o", "r">>

\* the rows the system of record may hold for the tenant: every combination
\* of the attributes the validation reads, and one whose slug differs from the
\* slug of the event
TenantRows ==
    [id : {TenantUuid},
     slug : {AcmeSlug},
     status : {"active", "suspended"},
     opensearch_arn : {NULL, PriorArn},
     opensearch_status : {"initializing", "ready", "failed"}]
    \cup
    {[id |-> TenantUuid, slug |-> OtherSlug, status |-> "active",
      opensearch_arn |-> NULL, opensearch_status |-> "initializing"]}

(***************************************************************************)
(* State.                                                                  *)
(***************************************************************************)
VARIABLES
    sqs,              \* the queue: message id -> [body, state]
    accreda_tenants,  \* the rows of public.accreda_tenants
    policies,         \* security and access policies that exist at the provider
    collections,      \* collections that exist at the provider: [name, status, arn]
    pc,               \* per worker process: the point of control
    pool,             \* config/database.js: pool (TRUE once initialised)
    isPolling,        \* SQSService.isPolling
    exitCode,         \* the code given to process.exit, -1 while running
    message,          \* the message of the current loop iteration (0: none)
    messageBody,      \* JSON.parse(message.Body)
    tenant,           \* processTenantMessage: tenant (result.rows of getTenant)
    collectionName,   \* createCollection: collectionName
    attempt,          \* waitForCollectionActive: attempt
    collection,       \* the collection detail returned by waitForCollectionActive
    client,           \* updateTenantOpenSearch: what the call that has just
                      \* ended did with its client (a local of the call)
    error,            \* the error caught last in the current iteration
    handler,          \* messageHandler of the current iteration:
                      \* none | running | returned | raised
    calls,            \* the external calls issued since the last receive
    answers,          \* what those calls answered: a set of [op, answer]
    response,         \* what the last of them answered
    signal            \* the signal the process has received: none | SIGTERM

envVars == <<sqs, accreda_tenants, policies, collections>>
procVars == <<pool, isPolling, exitCode, signal>>
iterVars == <<message, messageBody, tenant, collectionName, attempt, collection,
              client, error, handler>>
vars == <<sqs, accreda_tenants, policies, collections, pc, pool, isPolling,
          exitCode, message, messageBody, tenant, collectionName, attempt,
          collection, client, error, handler, calls, answers, response,
          signal>>

Put(f, w, v) == [f EXCEPT ![w] = v]

Call(op, name) == [op |-> op, name |-> name]
Answer(op, answer) == [op |-> op, answer |-> answer]
log == <<calls, answers, response>>
Issue(w, op, name, answer) ==
    /\ calls' = Put(calls, w, Append(calls[w], Call(op, name)))
    /\ answers' = Put(answers, w, answers[w] \cup {Answer(op, answer)})
    /\ response' = Put(response, w, answer)

Init ==
    /\ sqs \in [MsgIds -> [body : Bodies, state : {"visible"}]]
    /\ \A m \in MsgIds : m > 1 => sqs[m].body \in LaterBodies
    /\ accreda_tenants \in {{}} \cup {{r} : r \in TenantRows}
    /\ policies = {}
    /\ collections = {}
    /\ pc = [w \in Workers |-> "main"]
    /\ pool = [w \in Workers |-> FALSE]
    /\ isPolling = [w \in Workers |-> FALSE]
    /\ exitCode = [w \in Workers |-> -1]
    /\ message = [w \in Workers |-> 0]
    /\ messageBody = [w \in Workers |-> NotJson]
    /\ tenant = [w \in Workers |-> <<>>]
    /\ collectionName = [w \in Workers |-> <<>>]
    /\ attempt = [w \in Workers |-> 0]
    /\ collection = [w \in Workers |-> <<>>]
    /\ client = [w \in Workers |-> <<>>]
    /\ error = [w \in Workers |-> "none"]
    /\ handler = [w \in Workers |-> "none"]
    /\ calls = [w \in Workers |-> <<>>]
    /\ answers = [w \in Workers |-> {}]
    /\ response = [w \in Workers |-> "none"]
    /\ signal = [w \in Workers |-> "none"]

(***************************************************************************)
(* index.js: main                                                          *)
(***************************************************************************)
\* a faulty main that goes on to the consumer loop when initializeDatabase
\* has thrown (C29 must reject it)
InitializeDatabase_IgnoresFailure(w) ==
    /\ pc[w] = "main"
    /\ pc' = Put(pc, w, "startPolling")
    /\ \/ pool' = Put(pool, w, TRUE)
       \/ UNCHANGED pool
    /\ UNCHANGED <<envVars, isPolling, exitCode, signal, iterVars, log>>

\* await initializeDatabase(): the pool is created, or the call throws and
\* main's catch exits the process with code 1
InitializeDatabase(w) ==
    /\ pc[w] = "main"
    /\ \/ /\ pool' = Put(pool, w, TRUE)
          /\ pc' = Put(pc, w, "startPolling")
          /\ UNCHANGED exitCode
       \/ /\ pc' = Put(pc, w, "exited")
          /\ exitCode' = Put(exitCode, w, 1)
          /\ UNCHANGED pool
    /\ UNCHANGED <<envVars, isPolling, signal, iterVars, log>>

(***************************************************************************)
(* sqsService.js: startPolling                                             *)
(***************************************************************************)
\* this.isPolling = true
StartPolling(w) ==
    /\ pc[w] = "startPolling"
    /\ isPolling' = Put(isPolling, w, TRUE)
    /\ pc' = Put(pc, w, "loop")
    /\ UNCHANGED <<envVars, pool, exitCode, signal, iterVars, log>>

\* a faulty loop test that does not look at the flag (C21 must reject it)
LoopTest_IgnoresFlag(w) ==
    /\ pc[w] = "loop"
    /\ pc' = Put(pc, w, "receive")
    /\ UNCHANGED <<envVars, procVars, iterVars, log>>

\* while (this.isPolling)
LoopTest(w) ==
    /\ pc[w] = "loop"
    /\ pc' = Put(pc, w, IF isPolling[w] THEN "receive" ELSE "stopped")
    /\ UNCHANGED <<envVars, procVars, iterVars, log>>

\* the locals of one iteration, as they are when a message has been received
Fresh(w, m, e) ==
    /\ message' = Put(message, w, m)
    /\ messageBody' = Put(messageBody, w, NotJson)
    /\ tenant' = Put(tenant, w, <<>>)
    /\ collectionName' = Put(collectionName, w, <<>>)
    /\ attempt' = Put(attempt, w, 0)
    /\ collection' = Put(collection, w, <<>>)
    /\ client' = Put(client, w, <<>>)
    /\ error' = Put(error, w, e)
    /\ handler' = Put(handler, w, "none")

\* the log of an iteration starts with its receive
Received(w, answer) ==
    /\ calls' = Put(calls, w, <<Call("ReceiveMessage", <<>>)>>)
    /\ answers' = Put(answers, w, {Answer("ReceiveMessage", answer)})
    /\ response' = Put(response, w, answer)

\* const messages = await this.receiveMessages(): at most one message, which
\* the queue hides for the visibility timeout; a transport error goes to the
\* outer catch, which waits before the next iteration
ReceiveMessages(w) ==
    /\ pc[w] = "receive"
    /\ \/ /\ \E m \in MsgIds :
                /\ sqs[m].state = "visible"
                /\ sqs' = [sqs EXCEPT ![m].state = "inflight"]
                /\ Fresh(w, m, "none")
          /\ pc' = Put(pc, w, "parse")
          /\ Received(w, "message")
       \/ /\ Fresh(w, 0, "none")
          /\ pc' = Put(pc, w, "loop")
          /\ Received(w, "empty")
          /\ UNCHANGED sqs
       \/ /\ Fresh(w, 0, "ReceiveError")
          /\ pc' = Put(pc, w, "backoff")
          /\ Received(w, "error")
          /\ UNCHANGED sqs
    /\ UNCHANGED <<accreda_tenants, policies, collections, procVars>>


\* a faulty inner catch that lets the error out of the loop (C33 must
\* reject it)
InnerCatch_EndsLoop(w, e) ==
    /\ error' = Put(error, w, e)
    /\ pc' = Put(pc, w, "stopped")

\* the steps of the inner try of one iteration end in the inner catch, which
\* only logs: the for loop is over and the while loop tests its flag again
InnerCatch(w, e) ==
    /\ error' = Put(error, w, e)
    /\ pc' = Put(pc, w, "loop")

\* JSON.parse(message.Body), the log line that reads messageBody.tenant_id,
\* and validateMessage
ParseMessage(w) ==
    /\ pc[w] = "parse"
    /\ LET body == sqs[message[w]].body IN
       IF body.syntax = "error"
       THEN /\ InnerCatch(w, "SyntaxError")
            /\ UNCHANGED <<messageBody, handler>>
       ELSE IF body.type = "null"
       THEN /\ InnerCatch(w, "TypeError")
            /\ messageBody' = Put(messageBody, w, body)
            /\ UNCHANGED handler
       ELSE /\ messageBody' = Put(messageBody, w, body)
            /\ IF validateMessage(body)
               THEN /\ pc' = Put(pc, w, "getTenant")
                    /\ handler' = Put(handler, w, "running")
               ELSE /\ pc' = Put(pc, w, "deleteInvalid")
                    /\ UNCHANGED handler
            /\ UNCHANGED error
    /\ UNCHANGED <<envVars, procVars, message, tenant, collectionName, attempt,
                   collection, client, log>>

\* SQSService.deleteMessage as the loop calls it: the message leaves the
\* queue, or the call throws into the inner catch
DeleteMessage(w) ==
    \/ /\ sqs' = [sqs EXCEPT ![message[w]].state = "deleted"]
       /\ Issue(w, "DeleteMessage", <<>>, "ok")
       /\ pc' = Put(pc, w, "loop")
       /\ UNCHANGED error
    \/ /\ Issue(w, "DeleteMessage", <<>>, "error")
       /\ InnerCatch(w, "DeleteError")
       /\ UNCHANGED sqs

\* if (!this.validateMessage(messageBody)) { deleteMessage; continue }
DeleteInvalid(w) ==
    /\ pc[w] = "deleteInvalid"
    /\ DeleteMessage(w)
    /\ UNCHANGED <<accreda_tenants, policies, collections, procVars, message,
                   messageBody, tenant, collectionName, attempt, collection, client,
                   handler>>

\* await this.deleteMessage(message.ReceiptHandle) after the handler returned
DeleteProcessed(w) ==
    /\ pc[w] = "deleteProcessed"
    /\ DeleteMessage(w)
    /\ UNCHANGED <<accreda_tenants, policies, collections, procVars, message,
                   messageBody, tenant, collectionName, attempt, collection,
                   handler>>
    /\ client' = Put(client, w, <<>>)

\* the outer catch: await new Promise(resolve => setTimeout(resolve, 5000))
Backoff(w) ==
    /\ pc[w] = "backoff"
    /\ pc' = Put(pc, w, "loop")
    /\ UNCHANGED <<envVars, procVars, iterVars, log>>


(***************************************************************************)
(* databaseService.js                                                      *)
(***************************************************************************)
\* SELECT ... FROM public.accreda_tenants WHERE id = $1, as result.rows
SelectTenant(tenantId) ==
    IF \E r \in accreda_tenants : r.id = tenantId
    THEN <<CHOOSE r \in accreda_tenants : r.id = tenantId>>
    ELSE <<>>

\* a faulty validation that forgets the existing reference (C3 must reject it)
validateTenantForProvisioning_NoArnCheck(rows) ==
    /\ Len(rows) > 0
    /\ rows[1].status = "active"
    /\ rows[1].opensearch_status # "ready"

\* a faulty validation that only looks at the domain status (C4 must reject it)
validateTenantForProvisioning_ActiveOnly(rows) ==
    /\ Len(rows) > 0
    /\ rows[1].status = "active"

\* a faulty validation that does not look at the resource status (C25 must
\* reject it)
validateTenantForProvisioning_NoStatusCheck(rows) ==
    /\ Len(rows) > 0
    /\ rows[1].status = "active"
    /\ ~Truthy(rows[1].opensearch_arn)

\* a faulty validation that accepts only a tenant that was never tried
\* (C30 must reject it)
validateTenantForProvisioning_InitializingOnly(rows) ==
    /\ Len(rows) > 0
    /\ rows[1].status = "active"
    /\ ~Truthy(rows[1].opensearch_arn)
    /\ rows[1].opensearch_status = "initializing"

\* DatabaseService.validateTenantForProvisioning(tenant).isValid; the tenant
\* is result.rows, null when it is empty
validateTenantForProvisioning(rows) ==
    /\ Len(rows) > 0
    /\ rows[1].status = "active"
    /\ ~Truthy(rows[1].opensearch_arn)
    /\ rows[1].opensearch_status # "ready"

\* a faulty commit that writes the reference and not the status (C2 must
\* reject it)
UpdateArnAndStatus_ArnOnly(rows, tenantId, arn, status) ==
    {IF r.id = tenantId THEN [r EXCEPT !.opensearch_arn = arn] ELSE r : r \in rows}

\* UPDATE ... SET opensearch_arn = $1, opensearch_status = $2 WHERE id = $3
UpdateArnAndStatus(rows, tenantId, arn, status) ==
    {IF r.id = tenantId
     THEN [r EXCEPT !.opensearch_arn = arn, !.opensearch_status = status]
     ELSE r : r \in rows}

\* a faulty failure marking whose statement matches no row (C5 must reject it)
UpdateStatus_NoRow(rows, tenantId, status) == rows

\* UPDATE ... SET opensearch_status = $1 WHERE id = $2
UpdateStatus(rows, tenantId, status) ==
    {IF r.id = tenantId THEN [r EXCEPT !.opensearch_status = status] ELSE r :
        r \in rows}

\* a faulty handler that returns normally from its catch block (C32 must
\* reject it)
Catch_Returns(w, e) ==
    /\ error' = Put(error, w, e)
    /\ pc' = Put(pc, w, "deleteProcessed")

(***************************************************************************)
(* index.js: processTenantMessage                                          *)
(***************************************************************************)
\* a faulty handler call that is not awaited: on an error the loop goes on
\* while the handler is still in flight (C26 must reject it)
Catch_LoopGoesOn(w, e) ==
    /\ error' = Put(error, w, e)
    /\ pc' = Put(pc, w, "loop")

\* an error thrown inside the try of processTenantMessage reaches its catch
Catch(w, e) ==
    /\ error' = Put(error, w, e)
    /\ pc' = Put(pc, w, "markFailed")

\* Step 1: getTenant and validateTenantForProvisioning; an invalid tenant
\* makes the handler return, a valid one enters createCollection
GetTenant(w) ==
    /\ pc[w] = "getTenant"
    /\ \/ /\ Issue(w, "getTenant", <<>>, "ok")
          /\ LET rows == SelectTenant(messageBody[w].tenant_id) IN
             /\ tenant' = Put(tenant, w, rows)
             /\ IF validateTenantForProvisioning(rows)
                THEN /\ pc' = Put(pc, w, "encryption")
                     /\ collectionName' =
                            Put(collectionName, w, getCollectionName(rows[1].slug))
                     /\ UNCHANGED handler
                ELSE /\ pc' = Put(pc, w, "deleteProcessed")
                     /\ handler' = Put(handler, w, "returned")
                     /\ UNCHANGED collectionName
          /\ UNCHANGED error
       \/ /\ Issue(w, "getTenant", <<>>, "error")
          /\ Catch(w, "QueryError")
          /\ UNCHANGED <<tenant, collectionName, handler>>
    /\ UNCHANGED <<envVars, procVars, message, messageBody, attempt, collection, client>>

(***************************************************************************)
(* opensearchService.js                                                    *)
(***************************************************************************)
Policy(type, name) == [type |-> type, name |-> name]

encryptionName(name) == name \o <<"-", "e", "n", "c", "r", "y", "p", "t", "i", "o", "n">>
networkName(name) == name \o <<"-", "n", "e", "t", "w", "o", "r", "k">>
accessName(name) == name \o <<"-", "a", "c", "c", "e", "s", "s">>

\* a faulty creation step that logs every error and goes on (C15 must reject
\* it)
CreatePolicy_SwallowsError(w, op, p, next) ==
    \/ /\ p \notin policies
       /\ policies' = policies \cup {p}
       /\ Issue(w, op, p.name, "ok")
       /\ pc' = Put(pc, w, next)
       /\ UNCHANGED error
    \/ /\ Issue(w, op, p.name, "error")
       /\ pc' = Put(pc, w, next)
       /\ UNCHANGED <<policies, error>>

\* what the provider answers to the creation of the policy p
\* (CreateSecurityPolicy, CreateAccessPolicy)
CreatePolicy(w, op, p, next) ==
    \/ /\ p \notin policies
       /\ policies' = policies \cup {p}
       /\ Issue(w, op, p.name, "ok")
       /\ pc' = Put(pc, w, next)
       /\ UNCHANGED error
    \/ /\ p \in policies
       \* error.name === 'ConflictException': logged, not thrown
       /\ Issue(w, op, p.name, "ConflictException")
       /\ pc' = Put(pc, w, next)
       /\ UNCHANGED <<policies, error>>
    \/ /\ Issue(w, op, p.name, "error")
       /\ Catch(w, "ServiceError")
       /\ UNCHANGED policies

\* a faulty first step that goes on to the collection before the network
\* policy (C14 must reject it)
CreateEncryptionPolicy_SkipsNetwork(w) ==
    /\ pc[w] = "encryption"
    /\ CreatePolicy(w, "CreateSecurityPolicy",
                    Policy("encryption", encryptionName(collectionName[w])),
                    "collection")
    /\ UNCHANGED <<sqs, accreda_tenants, collections, procVars, message,
                   messageBody, tenant, collectionName, attempt, collection, client,
                   handler>>

\* createCollection Step 1: createEncryptionPolicy
CreateEncryptionPolicy(w) ==
    /\ pc[w] = "encryption"
    /\ CreatePolicy(w, "CreateSecurityPolicy",
                    Policy("encryption", encryptionName(collectionName[w])),
                    "network")
    /\ UNCHANGED <<sqs, accreda_tenants, collections, procVars, message,
                   messageBody, tenant, collectionName, attempt, collection, client,
                   handler>>

\* createCollection Step 2: createNetworkPolicy
CreateNetworkPolicy(w) ==
    /\ pc[w] = "network"
    /\ CreatePolicy(w, "CreateSecurityPolicy",
                    Policy("network", networkName(collectionName[w])),
                    "collection")
    /\ UNCHANGED <<sqs, accreda_tenants, collections, procVars, message,
                   messageBody, tenant, collectionName, attempt, collection, client,
                   handler>>

\* createCollection Step 3: this.client.send(createCommand); every error of
\* the call, ConflictException included, leaves createCollection
SendCreateCollection(w) ==
    /\ pc[w] = "collection"
    /\ LET name == collectionName[w] IN
       \/ /\ \A c \in collections : c.name # name
          /\ collections' = collections \cup
                 {[name |-> name, status |-> "CREATING", arn |-> ArnOf(name)]}
          /\ Issue(w, "CreateCollection", name, "ok")
          /\ pc' = Put(pc, w, "access")
          /\ UNCHANGED error
       \/ /\ \E c \in collections : c.name = name
          /\ Issue(w, "CreateCollection", name, "ConflictException")
          /\ Catch(w, "ConflictException")
          /\ UNCHANGED collections
       \/ /\ Issue(w, "CreateCollection", name, "error")
          /\ Catch(w, "ServiceError")
          /\ UNCHANGED collections
    /\ UNCHANGED <<sqs, accreda_tenants, policies, procVars, message,
                   messageBody, tenant, collectionName, attempt, collection, client,
                   handler>>

\* createCollection Step 4: createDataAccessPolicy; Step 5 then starts
\* waitForCollectionActive with attempt = 1
CreateDataAccessPolicy(w) ==
    /\ pc[w] = "access"
    /\ CreatePolicy(w, "CreateAccessPolicy",
                    Policy("data", accessName(collectionName[w])),
                    "poll")
    /\ attempt' = Put(attempt, w, IF pc'[w] = "poll" THEN 1 ELSE attempt[w])
    /\ UNCHANGED <<sqs, accreda_tenants, collections, procVars, message,
                   messageBody, tenant, collectionName, collection, client, handler>>


\* a faulty loop that runs one attempt more than its budget (C11 must reject
\* it)
NextAttempt_OneMore(w) ==
    IF attempt[w] = maxAttempts + 1
    THEN /\ Catch(w, "DidNotBecomeActive")
         /\ UNCHANGED attempt
    ELSE /\ attempt' = Put(attempt, w, attempt[w] + 1)
         /\ UNCHANGED <<pc, error>>

\* a faulty loop that propagates the first error (C12 must reject it)
NextAttempt_Propagates(w) ==
    /\ Catch(w, "DidNotBecomeActive")
    /\ UNCHANGED attempt

\* waitForCollectionActive, after an attempt that did not return: the catch
\* block throws on the last attempt and otherwise waits and goes on, and the
\* for loop that runs out of attempts throws the same error
NextAttempt(w) ==
    IF attempt[w] = maxAttempts
    THEN /\ Catch(w, "DidNotBecomeActive")
         /\ UNCHANGED attempt
    ELSE /\ attempt' = Put(attempt, w, attempt[w] + 1)
         /\ UNCHANGED <<pc, error>>

\* a faulty wait that returns the collection it found in the FAILED status
\* (C31 must reject it)
PollFailedStatus_Returns(w) ==
    /\ pc' = Put(pc, w, "commit")
    /\ UNCHANGED <<attempt, error>>

\* a status of FAILED throws inside the try of the attempt, so the catch
\* block of the same attempt handles it like any other error
PollFailedStatus(w) == NextAttempt(w)

\* one attempt of waitForCollectionActive: BatchGetCollection and what the
\* loop does with the answer
PollCollection(w) ==
    /\ pc[w] = "poll"
    /\ LET name == collectionName[w] IN
       \/ /\ Issue(w, "BatchGetCollection", name, "error")
          /\ NextAttempt(w)
          /\ UNCHANGED collection
       \/ /\ \A c \in collections : c.name # name
          /\ Issue(w, "BatchGetCollection", name, "empty")
          /\ NextAttempt(w)
          /\ UNCHANGED collection
       \/ \E c \in collections :
            /\ c.name = name
            /\ Issue(w, "BatchGetCollection", name, c.status)
            /\ IF c.status = "ACTIVE"
               THEN /\ collection' = Put(collection, w, <<c>>)
                    /\ pc' = Put(pc, w, "commit")
                    /\ UNCHANGED <<attempt, error>>
               ELSE IF c.status = "FAILED"
               THEN /\ PollFailedStatus(w)
                    /\ UNCHANGED collection
               ELSE /\ NextAttempt(w)
                    /\ UNCHANGED collection
    /\ UNCHANGED <<envVars, procVars, message, messageBody, tenant,
                   collectionName, client, handler>>

\* what the store answers to getClient and to the statements of one call of
\* updateTenantOpenSearch: each of them returns or throws
StoreOutcomes ==
    [connect : {"ok", "error"}, begin : {"ok", "error"},
     update : {"ok", "error"}, commit : {"ok", "error"},
     rollback : {"ok", "error"}, catchRollback : {"ok", "error"}]

Did(op, result) == [op |-> op, result |-> result]

\* the try block of updateTenantOpenSearch: the statements it issues on the
\* client, up to the first that throws; found: the UPDATE returns a row
TryBlock(o, found) ==
    IF o.begin = "error" THEN <<Did("BEGIN", "error")>>
    ELSE IF o.update = "error"
    THEN <<Did("BEGIN", "ok"), Did("UPDATE", "error")>>
    ELSE IF ~found
    THEN <<Did("BEGIN", "ok"), Did("UPDATE", "ok"), Did("ROLLBACK", o.rollback)>>
    ELSE <<Did("BEGIN", "ok"), Did("UPDATE", "ok"), Did("COMMIT", o.commit)>>

\* the try block throws: a statement threw, or the UPDATE returned no row
\* (throw new Error('Tenant not found or update failed'))
TryThrows(o, found) ==
    \/ o.begin = "error"
    \/ o.update = "error"
    \/ ~found
    \/ o.commit = "error"

\* the catch block: await client.query('ROLLBACK') before it rethrows
CatchBlock(o, found) ==
    IF TryThrows(o, found) THEN <<Did("ROLLBACK", o.catchRollback)>> ELSE <<>>

\* a faulty method that releases the client at the end of its try block and
\* at the end of its catch block, and has no finally (C34 must reject it)
ClientTrace_NoFinally(o, found) ==
    IF o.connect = "error" THEN <<>>
    ELSE <<Did("connect", "ok")>> \o TryBlock(o, found) \o CatchBlock(o, found)
         \o (IF TryThrows(o, found) /\ o.catchRollback = "error"
             THEN <<>> ELSE <<Did("release", "ok")>>)

\* const client = await getClient(); try { ... } catch { ... } finally
\* { client.release() }: what is done with the client in one call
ClientTrace(o, found) ==
    IF o.connect = "error" THEN <<>>
    ELSE <<Did("connect", "ok")>> \o TryBlock(o, found) \o CatchBlock(o, found)
         \o <<Did("release", "ok")>>

\* o answers the calls that are made and nothing else: what is not reached
\* is written "ok"
Reached(o, found) ==
    /\ o.connect = "error" => o.begin = "ok"
    /\ o.begin = "error" => o.update = "ok"
    /\ (o.connect = "error" \/ o.begin = "error" \/ o.update = "error") =>
          o.commit = "ok" /\ o.rollback = "ok"
    /\ found => o.rollback = "ok"
    /\ ~found => o.commit = "ok"
    /\ (o.connect = "error" \/ ~TryThrows(o, found)) => o.catchRollback = "ok"

\* the transaction of the call has committed
Commits(o, found) ==
    o.connect = "ok" /\ ~TryThrows(o, found)

\* the call throws the error of the empty UPDATE: neither ROLLBACK threw
ThrowsNotFound(o, found) ==
    /\ o.connect = "ok" /\ o.begin = "ok" /\ o.update = "ok" /\ ~found
    /\ o.rollback = "ok" /\ o.catchRollback = "ok"

\* the UPDATE was executed and returned no row
ZeroRows(o, found) ==
    o.connect = "ok" /\ o.begin = "ok" /\ o.update = "ok" /\ ~found

\* Step 3 of processTenantMessage: updateTenantOpenSearch(tenant_id,
\* collection.arn, 'ready'), one transaction: it commits the update of the
\* row, or it throws (zero rows updated, or a statement failed) and the row
\* is as before; a ROLLBACK that throws replaces the error of the call
UpdateTenantOpenSearch(w) ==
    /\ pc[w] = "commit"
    /\ \E o \in StoreOutcomes :
         LET tenantId == messageBody[w].tenant_id
             found == \E r \in accreda_tenants : r.id = tenantId
         IN
         /\ Reached(o, found)
         /\ client' = Put(client, w, ClientTrace(o, found))
         /\ IF Commits(o, found)
            THEN /\ accreda_tenants' =
                        UpdateArnAndStatus(accreda_tenants, tenantId,
                                           collection[w][1].arn, "ready")
                 /\ Issue(w, "updateTenantOpenSearch", <<>>, "ok")
                 /\ handler' = Put(handler, w, "returned")
                 /\ pc' = Put(pc, w, "deleteProcessed")
                 /\ UNCHANGED error
            ELSE IF ZeroRows(o, found)
            THEN /\ Issue(w, "updateTenantOpenSearch", <<>>, "zero rows")
                 /\ Catch(w, IF ThrowsNotFound(o, found)
                             THEN "TenantNotFound" ELSE "StoreError")
                 /\ UNCHANGED <<accreda_tenants, handler>>
            ELSE /\ Issue(w, "updateTenantOpenSearch", <<>>, "error")
                 /\ Catch(w, "StoreError")
                 /\ UNCHANGED <<accreda_tenants, handler>>
    /\ UNCHANGED <<sqs, policies, collections, procVars, message, messageBody,
                   tenant, collectionName, attempt, collection>>

\* the log of a call of markTenantOpenSearchFailed: what its statement
\* answered, and how the method ended (returned | threw)
MarkFailedCall(w, answer, end) ==
    /\ calls' = Put(calls, w,
                    Append(calls[w], Call("markTenantOpenSearchFailed", <<>>)))
    /\ answers' = Put(answers, w,
                      answers[w] \cup {Answer("markTenantOpenSearchFailed", answer),
                                       Answer("markTenantOpenSearchFailed", end)})
    /\ response' = Put(response, w, answer)

\* a faulty marking that lets the error of its statement out (C17 must
\* reject it)
MarkFailedWrite_Rethrows(w) ==
    \/ /\ accreda_tenants' =
              UpdateStatus(accreda_tenants, messageBody[w].tenant_id, "failed")
       /\ MarkFailedCall(w, "ok", "returned")
    \/ /\ MarkFailedCall(w, "error", "threw")
       /\ UNCHANGED accreda_tenants

\* markTenantOpenSearchFailed: await query(UPDATE ...) inside try; the
\* statement runs, or query throws (no pool, no connection, a statement
\* error) and the catch block logs the error: the method returns either way
MarkFailedWrite(w) ==
    \/ /\ accreda_tenants' =
              UpdateStatus(accreda_tenants, messageBody[w].tenant_id, "failed")
       /\ MarkFailedCall(w, "ok", "returned")
    \/ /\ MarkFailedCall(w, "error", "returned")
       /\ UNCHANGED accreda_tenants

\* a faulty catch that throws the error of the marking when the marking
\* failed (C18 must reject it)
MarkTenantOpenSearchFailed_MasksError(w) ==
    /\ pc[w] = "markFailed"
    /\ MarkFailedWrite(w)
    /\ handler' = Put(handler, w, "raised")
    /\ pc' = Put(pc, w, "loop")
    /\ error' = Put(error, w, IF response'[w] = "error" THEN "MarkError" ELSE error[w])
    /\ UNCHANGED <<sqs, policies, collections, procVars, message, messageBody,
                   tenant, collectionName, attempt, collection>>
    /\ client' = Put(client, w, <<>>)


\* a faulty catch that swallows the error, so that the loop goes on to its
\* delete (C1 must reject it)
MarkTenantOpenSearchFailed_Swallows(w) ==
    /\ pc[w] = "markFailed"
    /\ MarkFailedWrite(w)
    /\ handler' = Put(handler, w, "raised")
    /\ pc' = Put(pc, w, "deleteProcessed")
    /\ UNCHANGED <<sqs, policies, collections, procVars, message, messageBody,
                   tenant, collectionName, attempt, collection, error>>
    /\ client' = Put(client, w, <<>>)

\* the catch of processTenantMessage: markTenantOpenSearchFailed, then
\* throw error, which the inner catch of the loop logs
MarkTenantOpenSearchFailed(w) ==
    /\ pc[w] = "markFailed"
    /\ MarkFailedWrite(w)
    /\ handler' = Put(handler, w, "raised")
    /\ pc' = Put(pc, w, "loop")
    /\ UNCHANGED <<sqs, policies, collections, procVars, message, messageBody,
                   tenant, collectionName, attempt, collection, error>>
    /\ client' = Put(client, w, <<>>)

(***************************************************************************)
(* index.js: shutdown, sqsService.js: stopPolling, database.js:            *)
(* closeDatabase                                                           *)
(***************************************************************************)
\* a signal handler or a timer callback runs when the process is waiting
\* for a call or a timer, and not between two statements of the loop
Awaiting(w) == pc[w] \notin {"startPolling", "loop", "parse", "exited"}

\* process.on('SIGTERM' | 'SIGINT'): shutdown runs up to its first await,
\* sqsService.stopPolling() sets isPolling = false
Shutdown(w) ==
    /\ signal[w] = "none"
    /\ Awaiting(w)
    /\ signal' = Put(signal, w, "SIGTERM")
    /\ isPolling' = Put(isPolling, w, FALSE)
    /\ UNCHANGED <<envVars, pc, pool, exitCode, iterVars, log>>

\* the 5 s timer of shutdown has fired: closeDatabase() ends the pool and
\* process.exit(0) ends the process wherever the loop is; an error of
\* pool.end() goes to the catch of shutdown, process.exit(1)
ShutdownExit(w) ==
    /\ signal[w] = "SIGTERM"
    /\ Awaiting(w)
    /\ pc' = Put(pc, w, "exited")
    /\ \/ /\ pool' = Put(pool, w, FALSE)
          /\ exitCode' = Put(exitCode, w, 0)
       \/ /\ pool[w]
          /\ exitCode' = Put(exitCode, w, 1)
          /\ UNCHANGED pool
    /\ UNCHANGED <<envVars, isPolling, signal, iterVars, log>>

(***************************************************************************)
(* The environment: the queue, the provider, the system of record.         *)
(***************************************************************************)
allWorker == <<pc, pool, isPolling, exitCode, signal, message, messageBody, tenant,
               collectionName, attempt, collection, client, error, handler,
               log>>

\* receiveMessages: VisibilityTimeout: 300 (seconds)
VisibilityTimeoutSeconds == 300
\* waitForCollectionActive: setTimeout(resolve, 30000) after each attempt
PollIntervalSeconds == 30
\* waitForCollectionActive(collectionName, maxAttempts = 60)
DefaultMaxAttempts == 60

\* the waits of the polling of one handling add up to more than the window
HandlingOutlastsWindow ==
    DefaultMaxAttempts * PollIntervalSeconds > VisibilityTimeoutSeconds

\* the iteration of w that received m has not yet ended
Handling(w, m) ==
    /\ message[w] = m
    /\ pc[w] \in {"parse", "deleteInvalid", "getTenant", "encryption", "network",
                  "collection", "access", "poll", "commit", "markFailed",
                  "deleteProcessed"}

\* the visibility timeout of a received message elapses; while the handler
\* of the delivery is still running it can do so only when a handling can
\* take longer than the window
VisibilityTimeout ==
    /\ \E m \in MsgIds :
          /\ sqs[m].state = "inflight"
          /\ (\E w \in Workers : Handling(w, m)) => HandlingOutlastsWindow
          /\ sqs' = [sqs EXCEPT ![m].state = "visible"]
    /\ UNCHANGED <<accreda_tenants, policies, collections, allWorker>>

\* a collection that is being created reaches a terminal status
CollectionSettles ==
    /\ \E c \in collections, st \in {"ACTIVE", "FAILED"} :
          /\ c.status = "CREATING"
          /\ collections' = (collections \ {c}) \cup {[c EXCEPT !.status = st]}
    /\ UNCHANGED <<sqs, accreda_tenants, policies, allWorker>>

\* the system of record removes the tenant
TenantRemoved ==
    /\ accreda_tenants # {}
    /\ accreda_tenants' = {}
    /\ UNCHANGED <<sqs, policies, collections, allWorker>>

Environment ==
    \/ VisibilityTimeout
    \/ CollectionSettles
    \/ TenantRemoved

(***************************************************************************)
(* The specification: one worker process and its environment.              *)
(***************************************************************************)
WorkerNext(w) ==
    \/ InitializeDatabase(w)
    \/ StartPolling(w)
    \/ LoopTest(w)
    \/ ReceiveMessages(w)
    \/ ParseMessage(w)
    \/ DeleteInvalid(w)
    \/ GetTenant(w)
    \/ CreateEncryptionPolicy(w)
    \/ CreateNetworkPolicy(w)
    \/ SendCreateCollection(w)
    \/ CreateDataAccessPolicy(w)
    \/ PollCollection(w)
    \/ UpdateTenantOpenSearch(w)
    \/ MarkTenantOpenSearchFailed(w)
    \/ DeleteProcessed(w)
    \/ Backoff(w)

Next == WorkerNext(1) \/ Environment

Spec == Init /\ [][Next]_vars

(***************************************************************************)
(* Two worker processes on one queue: a delivery whose visibility timeout  *)
(* elapses while its handling is still running is delivered to the other   *)
(* worker.  The event is for a tenant that can be provisioned, or its      *)
(* payload is rejected by the validation.                                  *)
(***************************************************************************)
EligibleRow ==
    [id |-> TenantUuid, slug |-> AcmeSlug, status |-> "active",
     opensearch_arn |-> NULL, opensearch_status |-> "initializing"]

Init2 ==
    /\ Init
    /\ \A m \in MsgIds : sqs[m].body \in LaterBodies
    /\ accreda_tenants = {EligibleRow}

\* the tenant stays in the system of record while the two workers run
Next2 ==
    \/ \E w \in Workers : WorkerNext(w)
    \/ VisibilityTimeout
    \/ CollectionSettles

Spec2 == Init2 /\ [][Next2]_vars

(***************************************************************************)
(* One worker process that receives a shutdown signal at any point of its  *)
(* life.  Under the fair specification the process keeps taking its steps. *)
(***************************************************************************)
NextShutdown ==
    \/ WorkerNext(1)
    \/ Shutdown(1)
    \/ ShutdownExit(1)
    \/ VisibilityTimeout
    \/ CollectionSettles

SpecShutdown == Init2 /\ [][NextShutdown]_vars

FairSpecShutdown == SpecShutdown /\ WF_vars(WorkerNext(1))


(***************************************************************************)
(* Vocabulary of the properties.                                           *)
(***************************************************************************)
CreationOps == {"CreateSecurityPolicy", "CreateCollection", "CreateAccessPolicy"}
ProviderOps == CreationOps \cup {"BatchGetCollection"}
StoreWrites == {"updateTenantOpenSearch", "markTenantOpenSearchFailed"}

\* the calls of the current iteration of w that are among ops
CallsOf(w, ops) == {i \in 1..Len(calls[w]) : calls[w][i].op \in ops}
Issued(w, ops) == CallsOf(w, ops) # {}
Answered(w, ops, as) ==
    \E a \in answers[w] : a.op \in ops /\ a.answer \in as

\* the iteration that received message[w] is over
IterationDone(w) == pc[w] \in {"loop", "receive", "stopped"} /\ message[w] # 0

\* the payload of the delivery, as the event schema sees it
WellFormed(body) ==
    /\ body.syntax = "ok"
    /\ body.type = "object"
    /\ body.tenant_id # Undefined /\ body.tenant_id # NULL
    /\ body.tenant_slug # Undefined /\ body.tenant_slug # NULL
    /\ body.timestamp # Undefined /\ body.timestamp # NULL
    /\ uuidRegex(body.tenant_id)
    /\ slugRegex(body.tenant_slug)
\* the payloads of the queue that are well-formed (every payload of the
\* queue is one of Bodies)
WellFormedBodies == {body \in Bodies : WellFormed(body)}
ValidDelivery(w) == message[w] # 0 /\ sqs[message[w]].body \in WellFormedBodies
MalformedDelivery(w) ==
    message[w] # 0 /\ sqs[message[w]].body \notin WellFormedBodies

\* the row of the tenant the delivery names, as it is in the store now
RowsOf(w) == {r \in accreda_tenants : r.id = sqs[message[w]].body.tenant_id}
ReadyRow(r) == r.opensearch_status = "ready" /\ r.opensearch_arn # NULL

\* rows is result.rows of a lookup: the tenant is not eligible
Ineligible(rows) ==
    \/ Len(rows) = 0
    \/ rows[1].status # "active"
    \/ rows[1].opensearch_arn # NULL
    \/ rows[1].opensearch_status = "ready"

(***************************************************************************)
(* C1: for a delivery of a structurally valid event the loop issues the    *)
(* queue delete if and only if the handler returned without raising; when  *)
(* the handler raised no delete is issued and the event is still in the    *)
(* queue.                                                                  *)
(***************************************************************************)
C1_DeleteIffHandlerReturned ==
    \A w \in Workers :
        ValidDelivery(w) =>
            /\ Issued(w, {"DeleteMessage"}) => handler[w] = "returned"
            /\ IterationDone(w) =>
                  (Issued(w, {"DeleteMessage"}) <=> handler[w] = "returned")
            /\ handler[w] = "raised" =>
                  /\ ~Issued(w, {"DeleteMessage"})
                  /\ sqs[message[w]].state # "deleted"

C1_Witness ==
    \E w \in Workers :
        /\ ValidDelivery(w)
        /\ IterationDone(w)
        /\ handler[w] = "raised"
        /\ sqs[message[w]].state = "visible"

(***************************************************************************)
(* C2: a valid event for an eligible tenant whose provisioning calls all   *)
(* succeed, whose collection a poll observes active and whose commit       *)
(* succeeds leaves the tenant ready with a reference and the event deleted.*)
(***************************************************************************)
Committed(w) == Answered(w, {"updateTenantOpenSearch"}, {"ok"})

\* the claim as stated: the event has been deleted when the iteration is over
C2_Original ==
    \A w \in Workers :
        (ValidDelivery(w) /\ Committed(w)) =>
            /\ \A r \in RowsOf(w) : ReadyRow(r)
            /\ IterationDone(w) => sqs[message[w]].state = "deleted"

\* as amended: the delete is issued, and the event is gone when the delete
\* call succeeded
C2_CommittedReadyAndDeleteIssued ==
    \A w \in Workers :
        (ValidDelivery(w) /\ Committed(w)) =>
            /\ handler[w] = "returned"
            /\ Len(collection[w]) = 1
            /\ \A r \in RowsOf(w) :
                  /\ ReadyRow(r)
                  /\ r.opensearch_arn = collection[w][1].arn
            /\ IterationDone(w) =>
                  /\ Issued(w, {"DeleteMessage"})
                  /\ Answered(w, {"DeleteMessage"}, {"ok"})
                        => sqs[message[w]].state = "deleted"

\* the case of the claim: no call of the handling failed or found anything
\* in place, and the event is deleted
C2_Witness ==
    \E w \in Workers :
        /\ ValidDelivery(w)
        /\ Committed(w)
        /\ IterationDone(w)
        /\ ~Answered(w, CreationOps, {"ConflictException", "error"})
        /\ ~Answered(w, {"BatchGetCollection"}, {"error", "FAILED", "empty"})
        /\ sqs[message[w]].state = "deleted"
        /\ \E r \in RowsOf(w) : ReadyRow(r)


(***************************************************************************)
(* C3: for an event whose tenant is absent, not active, already has a      *)
(* reference or is already ready, handling is a no-op: no provider call,   *)
(* no write to the tenant record, the handler returns and the event is     *)
(* deleted.                                                                *)
(***************************************************************************)
\* the claim as stated, on the steps of the handling: the lookup step of an
\* ineligible tenant makes the handler return and leaves the record alone,
\* and the delete that follows removes the event
C3_Original ==
    [][\A w \in Workers :
          /\ ( /\ pc[w] = "getTenant"
               /\ pc'[w] # "getTenant"
               /\ Ineligible(SelectTenant(messageBody[w].tenant_id)) )
             => /\ handler'[w] = "returned"
                /\ accreda_tenants' = accreda_tenants
          /\ ( /\ pc[w] = "deleteProcessed"
               /\ pc'[w] # "deleteProcessed"
               /\ Ineligible(tenant[w]) )
             => sqs'[message[w]].state = "deleted"]_vars

\* the lookup of the handling returned rows that are not eligible
Rejected(w) ==
    /\ ValidDelivery(w)
    /\ Answered(w, {"getTenant"}, {"ok"})
    /\ Ineligible(tenant[w])

\* as amended: when the lookup succeeds and finds the tenant ineligible, the
\* handling is a no-op and the delete is issued; the event is gone when the
\* delete call succeeded
C3_RejectedIsNoOp ==
    \A w \in Workers :
        Rejected(w) =>
            /\ handler[w] = "returned"
            /\ ~Issued(w, ProviderOps)
            /\ ~Issued(w, StoreWrites)
            /\ \A r \in RowsOf(w) : tenant[w] = <<r>>
            /\ IterationDone(w) =>
                  /\ Issued(w, {"DeleteMessage"})
                  /\ Answered(w, {"DeleteMessage"}, {"ok"})
                        => sqs[message[w]].state = "deleted"

C3_Witness ==
    \E w \in Workers :
        /\ Rejected(w)
        /\ IterationDone(w)
        /\ Len(tenant[w]) = 1
        /\ tenant[w][1].opensearch_status = "ready"
        /\ sqs[message[w]].state = "deleted"

(***************************************************************************)
(* C4: across the deliveries of an event the reference of the tenant never *)
(* takes two distinct non-empty values, and a delivery that comes after    *)
(* the reference was committed issues no creation call.                    *)
(***************************************************************************)
C4_OneReference ==
    [][\A r \in accreda_tenants :
          r.opensearch_arn # NULL =>
              /\ \A r2 \in accreda_tenants' :
                    r2.id = r.id => r2.opensearch_arn = r.opensearch_arn
              /\ \A w \in Workers :
                    (message'[w] # 0 /\ sqs'[message'[w]].body.tenant_id = r.id)
                        => CallsOf(w, CreationOps)' \subseteq CallsOf(w, CreationOps)
      ]_vars

\* a redelivery that finds the reference an earlier delivery committed
C4_Witness ==
    \E w \in Workers :
        /\ Rejected(w)
        /\ IterationDone(w)
        /\ Len(tenant[w]) = 1
        /\ tenant[w][1].opensearch_arn = ArnOf(getCollectionName(tenant[w][1].slug))
        /\ tenant[w][1].opensearch_status = "ready"

(***************************************************************************)
(* C5: when the provisioning sequence fails after the policy creation      *)
(* steps and before a poll observes the collection active, the tenant      *)
(* record is failed after the handling, the handler has raised and the     *)
(* event has not been deleted.                                             *)
(***************************************************************************)
\* the iteration is over, the create-collection call was reached and no poll
\* of the handling saw the collection active
FailedInWindow(w) ==
    /\ ValidDelivery(w)
    /\ IterationDone(w)
    /\ Issued(w, {"CreateCollection"})
    /\ ~Answered(w, {"BatchGetCollection"}, {"ACTIVE"})

\* the claim as stated
C5_Original ==
    \A w \in Workers :
        FailedInWindow(w) =>
            /\ handler[w] = "raised"
            /\ \A r \in RowsOf(w) : r.opensearch_status = "failed"
            /\ sqs[message[w]].state # "deleted"

\* as amended: the failure marking is attempted once, and the record is
\* failed when the write of the marking succeeded
C5_FailureMarkedAndRaised ==
    \A w \in Workers :
        FailedInWindow(w) =>
            /\ handler[w] = "raised"
            /\ ~Issued(w, {"DeleteMessage"})
            /\ sqs[message[w]].state # "deleted"
            /\ Cardinality(CallsOf(w, {"markTenantOpenSearchFailed"})) = 1
            /\ Answered(w, {"markTenantOpenSearchFailed"}, {"ok"})
                  => \A r \in RowsOf(w) : r.opensearch_status = "failed"

\* a poll of the handling returned the failed status
C5_Witness ==
    \E w \in Workers :
        /\ FailedInWindow(w)
        /\ Answered(w, {"BatchGetCollection"}, {"FAILED"})
        /\ Answered(w, {"markTenantOpenSearchFailed"}, {"ok"})
        /\ \E r \in RowsOf(w) : r.opensearch_status = "failed"

(***************************************************************************)
(* C6: for a received event whose payload is malformed the handler is      *)
(* never invoked: no tenant lookup, no provider call, no store write.      *)
(***************************************************************************)
C6_MalformedNeverHandled ==
    \A w \in Workers :
        MalformedDelivery(w) =>
            /\ handler[w] = "none"
            /\ ~Issued(w, {"getTenant"} \cup ProviderOps \cup StoreWrites)

C6_Witness ==
    \E w \in Workers :
        /\ MalformedDelivery(w)
        /\ IterationDone(w)
        /\ sqs[message[w]].body.type = "object"
        /\ uuidRegex(sqs[message[w]].body.tenant_id)
        /\ ~slugRegex(sqs[message[w]].body.tenant_slug)


(***************************************************************************)
(* C7: a received event whose body fails to parse, or whose required       *)
(* fields are missing or malformed, is deleted from the queue in the       *)
(* iteration that received it.  Stated for the iterations whose delete     *)
(* call does not itself fail: the delete is issued, and the event is gone  *)
(* when the call succeeded.                                                *)
(***************************************************************************)
C7_MalformedDeletedInIteration ==
    \A w \in Workers :
        (MalformedDelivery(w) /\ IterationDone(w)) =>
            /\ Issued(w, {"DeleteMessage"})
            /\ Answered(w, {"DeleteMessage"}, {"ok"})
                  => sqs[message[w]].state = "deleted"

(***************************************************************************)
(* C8: in each of the four creation steps an "already exists" answer of    *)
(* the provider is treated as success: the step does not raise and the     *)
(* sequence goes on with the next step.                                    *)
(***************************************************************************)
StepAfter(step) ==
    CASE step = "encryption" -> "network"
      [] step = "network" -> "collection"
      [] step = "collection" -> "access"
      [] step = "access" -> "poll"

\* the step of w issues a call, and the call is answered with one of as
StepAnswered(w, as) ==
    /\ Len(calls'[w]) = Len(calls[w]) + 1
    /\ response'[w] \in as

C8_AlreadyExistsIsSuccess ==
    [][\A w \in Workers :
          ( /\ pc[w] \in {"encryption", "network", "collection", "access"}
            /\ StepAnswered(w, {"ConflictException"}) )
          => pc'[w] = StepAfter(pc[w])]_vars

(***************************************************************************)
(* C9: forward progress after a partial failure: a redelivery that finds   *)
(* the collection an earlier handling created, with the provider reporting *)
(* it active and every call answered, ends with the tenant ready.          *)
(***************************************************************************)
\* the handling found the tenant eligible and the collection in place, no
\* call of it failed, and the provider holds the collection as active
RedeliveryAfterPartialFailure(w) ==
    /\ ValidDelivery(w)
    /\ IterationDone(w)
    /\ Answered(w, {"getTenant"}, {"ok"})
    /\ ~Ineligible(tenant[w])
    /\ Answered(w, {"CreateCollection"}, {"ConflictException"})
    /\ \A a \in answers[w] :
          a.answer \notin {"error", "zero rows", "FAILED", "CREATING", "empty"}
    /\ \E c \in collections : c.name = collectionName[w] /\ c.status = "ACTIVE"

C9_ForwardProgress ==
    \A w \in Workers :
        RedeliveryAfterPartialFailure(w) =>
            /\ handler[w] = "returned"
            /\ \A r \in RowsOf(w) : r.opensearch_status = "ready"

(***************************************************************************)
(* C10: a failed status returned by the provider at any poll attempt is    *)
(* terminal: polling ends with an error at that attempt and no further     *)
(* status query is issued.                                                 *)
(***************************************************************************)
C10_FailedStatusIsTerminal ==
    [][\A w \in Workers :
          (pc[w] = "poll" /\ StepAnswered(w, {"FAILED"}))
          => pc'[w] = "markFailed"]_vars

(***************************************************************************)
(* C11: readiness polling is bounded: one provisioning call issues at most *)
(* maxAttempts status queries, and when none of them saw the collection    *)
(* active the call ends with the "did not become active" error after the   *)
(* last of them.                                                           *)
(***************************************************************************)
Polls(w) == Cardinality(CallsOf(w, {"BatchGetCollection"}))

C11_PollingBounded ==
    \A w \in Workers :
        /\ Polls(w) <= maxAttempts
        /\ pc[w] = "poll" => (attempt[w] <= maxAttempts /\ Polls(w) = attempt[w] - 1)
        /\ ( /\ Issued(w, {"BatchGetCollection"})
             /\ pc[w] # "poll"
             /\ ~Answered(w, {"BatchGetCollection"}, {"ACTIVE"}) )
           => /\ Polls(w) = maxAttempts
              /\ error[w] = "DidNotBecomeActive"
              /\ ~Issued(w, {"updateTenantOpenSearch"})

\* the budget is used up on a collection that is still being created
C11_Witness ==
    \E w \in Workers :
        /\ IterationDone(w)
        /\ handler[w] = "raised"
        /\ Polls(w) = maxAttempts
        /\ answers[w] \cap [op : {"BatchGetCollection"},
                            answer : {"ACTIVE", "FAILED", "error", "empty"}] = {}
        /\ error[w] = "DidNotBecomeActive"

(***************************************************************************)
(* C12: an error of the status query on an attempt before the last is not  *)
(* propagated: polling goes on with the next attempt of the same budget,   *)
(* and an active status seen on a later attempt makes the call succeed;    *)
(* an error on the last attempt ends polling with an error.                *)
(***************************************************************************)
C12_TransientPollErrorRetried ==
    [][\A w \in Workers :
          /\ (pc[w] = "poll" /\ StepAnswered(w, {"error"})) =>
                IF attempt[w] < maxAttempts
                THEN /\ pc'[w] = "poll"
                     /\ attempt'[w] = attempt[w] + 1
                     /\ error'[w] = error[w]
                ELSE /\ pc'[w] = "markFailed"
                     /\ error'[w] = "DidNotBecomeActive"
          /\ (pc[w] = "poll" /\ StepAnswered(w, {"ACTIVE"})) =>
                /\ pc'[w] = "commit"
                /\ Len(collection'[w]) = 1
                /\ error'[w] = error[w]]_vars

\* a status query failed, a later one saw the collection active, and the
\* handling committed
C12_Witness ==
    \E w \in Workers :
        /\ Answered(w, {"BatchGetCollection"}, {"error"})
        /\ Answered(w, {"BatchGetCollection"}, {"ACTIVE"})
        /\ Committed(w)
        /\ handler[w] = "returned"

(***************************************************************************)
(* C13: no write of the subsystem changes the resource status of a tenant  *)
(* away from ready, and a write that makes the status failed finds it      *)
(* uninitialized ('initializing' in the store).                            *)
(***************************************************************************)
C13_ReadyNeverLeft ==
    [][\A r \in accreda_tenants, r2 \in accreda_tenants' :
          r2.id = r.id =>
              /\ r.opensearch_status = "ready" => r2.opensearch_status = "ready"
              /\ (r2.opensearch_status = "failed" /\ r.opensearch_status # "failed")
                    => r.opensearch_status = "initializing"]_vars

(***************************************************************************)
(* C14: within one handling the external calls are issued in this order,   *)
(* each after the one before it: tenant lookup, create encryption policy,  *)
(* create network policy, create collection, create data-access policy,    *)
(* status polls, store commit.                                             *)
(***************************************************************************)
HandlingOps == {"getTenant", "updateTenantOpenSearch"} \cup ProviderOps

\* the calls of the handling of w, in the order of their issue
HandlingCalls(w) == SelectSeq(calls[w], LAMBDA c : c.op \in HandlingOps)

\* the place of a call in the order of the sequence
StepOf(w, c) ==
    CASE c.op = "getTenant" -> 1
      [] c.op = "CreateSecurityPolicy" /\ c.name = encryptionName(collectionName[w]) -> 2
      [] c.op = "CreateSecurityPolicy" /\ c.name = networkName(collectionName[w]) -> 3
      [] c.op = "CreateCollection" /\ c.name = collectionName[w] -> 4
      [] c.op = "CreateAccessPolicy" /\ c.name = accessName(collectionName[w]) -> 5
      [] c.op = "BatchGetCollection" /\ c.name = collectionName[w] -> 6
      [] c.op = "updateTenantOpenSearch" -> 7
      [] OTHER -> 0

\* the calls of the handling of w so far follow the order of the sequence
CallsInOrder(w) ==
    LET h == HandlingCalls(w) IN
    \A i \in 1..Len(h) :
        /\ i <= 6 => StepOf(w, h[i]) = i
        /\ i > 6 => /\ StepOf(w, h[i]) \in {6, 7}
                    /\ StepOf(w, h[i - 1]) = 6

\* every step keeps the order, and issues at most one call, which it has
\* awaited when the step is over
C14_CallsInOrder ==
    [][\A w \in Workers :
          /\ CallsInOrder(w)'
          /\ Len(calls'[w]) <= Len(calls[w]) + 1]_vars

\* a handling that went through every step, with more than one poll
C14_Witness ==
    \E w \in Workers :
        /\ Committed(w)
        /\ Len(HandlingCalls(w)) >= 8
        /\ HandlingCalls(w)[Len(HandlingCalls(w))].op = "updateTenantOpenSearch"

(***************************************************************************)
(* C15: a creation step that fails with a cause other than "already        *)
(* exists" ends the provisioning call at once: the handling issues no      *)
(* later creation step, no status poll and no commit, and nothing that     *)
(* was created is removed.                                                 *)
(***************************************************************************)
CreationSteps == {"encryption", "network", "collection", "access"}

\* the resource names that exist at the provider
Created == {p.name : p \in policies} \cup {c.name : c \in collections}

C15_CreationErrorAborts ==
    [][\A w \in Workers :
          \* the failing step leaves the sequence for the catch of the handler
          /\ (pc[w] \in CreationSteps /\ StepAnswered(w, {"error"})) =>
                /\ pc'[w] = "markFailed"
                /\ error'[w] = "ServiceError"
          \* from then on the handling issues nothing but the failure marking
          /\ Answered(w, CreationOps, {"error"}) =>
                /\ CallsOf(w, ProviderOps \cup {"getTenant", "updateTenantOpenSearch"})'
                      \subseteq CallsOf(w, ProviderOps \cup {"getTenant", "updateTenantOpenSearch"})
                /\ pc'[w] \notin CreationSteps \cup {"poll", "commit"}
          \* no step removes a policy or a collection
          /\ Created \subseteq Created']_vars

\* the creation of the collection failed after both security policies were
\* created: the handling is over, the policies are still there
C15_Witness ==
    \E w \in Workers :
        /\ IterationDone(w)
        /\ handler[w] = "raised"
        /\ Answered(w, {"CreateCollection"}, {"error"})
        /\ ~Answered(w, {"CreateSecurityPolicy"}, {"error", "ConflictException"})
        /\ Policy("encryption", encryptionName(collectionName[w])) \in policies
        /\ Policy("network", networkName(collectionName[w])) \in policies
        /\ ~Issued(w, {"CreateAccessPolicy", "BatchGetCollection", "updateTenantOpenSearch"})

(***************************************************************************)
(* C16: when the update of the commit affects zero rows the commit raises  *)
(* the not-found error and no other, the record is as it was, the handler  *)
(* raises and the event is not deleted.                                    *)
(***************************************************************************)
C16_ZeroRowsIsNotFound ==
    \A w \in Workers :
        Answered(w, {"updateTenantOpenSearch"}, {"zero rows"}) =>
            /\ error[w] = "TenantNotFound"
            /\ handler[w] # "returned"
            /\ ~Issued(w, {"DeleteMessage"})
            /\ sqs[message[w]].state # "deleted"
            /\ IterationDone(w) => handler[w] = "raised"

(***************************************************************************)
(* C17: markFailed never raises: whatever makes its store write fail, the  *)
(* call returns normally to its caller.                                    *)
(***************************************************************************)
C17_MarkFailedNeverRaises ==
    \A w \in Workers :
        Issued(w, {"markTenantOpenSearchFailed"}) =>
            /\ Answered(w, {"markTenantOpenSearchFailed"}, {"returned"})
            /\ ~Answered(w, {"markTenantOpenSearchFailed"}, {"threw"})

\* the write of the marking failed
C17_Witness ==
    \E w \in Workers :
        /\ Answered(w, {"markTenantOpenSearchFailed"}, {"error"})
        /\ Answered(w, {"markTenantOpenSearchFailed"}, {"returned"})
        /\ IterationDone(w)

(***************************************************************************)
(* C18: on every error that the handling does not recover from, the        *)
(* handler makes exactly one failure-marking attempt and then raises the   *)
(* error it caught; the consumer loop sees that error whether the marking  *)
(* succeeded or failed.                                                    *)
(***************************************************************************)
\* the errors thrown inside the try of the handler
HandlingErrors == {"QueryError", "ServiceError", "ConflictException",
                   "DidNotBecomeActive", "TenantNotFound", "StoreError"}

Markings(w) == Cardinality(CallsOf(w, {"markTenantOpenSearchFailed"}))

C18_OneMarkingThenOriginalError ==
    [][\A w \in Workers :
          \* the catch of the handler: one marking, then the error it caught
          /\ (pc[w] = "markFailed" /\ pc'[w] # "markFailed") =>
                /\ error[w] \in HandlingErrors
                /\ error'[w] = error[w]
                /\ handler'[w] = "raised"
                /\ pc'[w] = "loop"
                /\ Markings(w) = 0
                /\ Markings(w)' = 1
          \* an error of the handling always goes through that catch, and a
          \* handler that raises has gone through it
          /\ (handler[w] = "running" /\ error'[w] # error[w]) =>
                (pc'[w] = "markFailed" /\ error'[w] \in HandlingErrors)
          /\ (handler[w] # "raised" /\ handler'[w] = "raised") => pc[w] = "markFailed"
          /\ Markings(w)' <= 1]_vars

\* the marking failed and the loop has the error of the provider
C18_Witness ==
    \E w \in Workers :
        /\ IterationDone(w)
        /\ handler[w] = "raised"
        /\ Answered(w, {"markTenantOpenSearchFailed"}, {"error"})
        /\ error[w] = "ServiceError"
        /\ Markings(w) = 1

(***************************************************************************)
(* C19: two workers handle deliveries of the event of one tenant at the    *)
(* same time: once one of them has committed ready with a reference, no    *)
(* write of the other changes the status or the reference of the record.   *)
(***************************************************************************)
\* w2 handles a delivery of the event that w1 has committed, and w2 found
\* the tenant eligible, which it can only have done before that commit
HandlingBeside(w1, w2) ==
    /\ w1 # w2
    /\ Committed(w1)
    /\ handler[w2] = "running"
    /\ messageBody[w2].tenant_id = messageBody[w1].tenant_id
    /\ Answered(w2, {"getTenant"}, {"ok"})
    /\ ~Ineligible(tenant[w2])

C19_CommittedStaysReady ==
    [][\A w1, w2 \in Workers :
          (HandlingBeside(w1, w2) /\ calls'[w2] # calls[w2]) =>
              \A r \in accreda_tenants, r2 \in accreda_tenants' :
                  (r.id = messageBody[w1].tenant_id /\ r2.id = r.id /\ ReadyRow(r))
                      => (ReadyRow(r2) /\ r2.opensearch_arn = r.opensearch_arn)]_vars

(***************************************************************************)
(* C20: after a transport failure of the receive call or of the delete     *)
(* call the loop waits the back-off delay before its next receive.         *)
(***************************************************************************)
C20_BackoffAfterTransportFailure ==
    [][\A w \in Workers :
          ( /\ pc[w] \in {"receive", "deleteInvalid", "deleteProcessed"}
            /\ pc'[w] # pc[w]
            /\ response'[w] = "error" )
          => pc'[w] = "backoff"]_vars

(***************************************************************************)
(* C21: stop() called while the loop is running cancels nothing: the       *)
(* handler in flight goes on, its event is acknowledged or left by the     *)
(* normal rule, the loop sees the flag at its next test and ends without   *)
(* another receive, so the loop terminates after stop().                   *)
(***************************************************************************)
\* stopPolling has been called after startPolling set the flag, and the
\* loop has not ended yet
StopWhileRunning(w) ==
    /\ signal[w] = "SIGTERM"
    /\ ~isPolling[w]
    /\ pc[w] \notin {"main", "startPolling", "stopped", "exited"}

\* the claim as stated: the handler in flight runs to completion
C21_Original ==
    [][\A w \in Workers :
          (StopWhileRunning(w) /\ handler[w] = "running")
              => (pc'[w] # "exited" \/ handler'[w] # "running")]_vars

\* as amended: until the process exits, the handling goes on as it would
\* have, the loop begins no receive after its next test, and the loop ends
C21_StopLetsLoopFinish ==
    /\ [][\A w \in Workers :
             \* the call of stop() changes the flag and nothing else of the loop
             /\ signal'[w] # signal[w] =>
                   /\ pc'[w] = pc[w]
                   /\ handler'[w] = handler[w]
                   /\ calls'[w] = calls[w]
             /\ StopWhileRunning(w) =>
                   \* the next test of the flag ends the loop
                   /\ (pc[w] = "loop" /\ pc'[w] # "loop")
                         => pc'[w] \in {"stopped", "exited"}
                   /\ pc'[w] = "receive" => pc[w] = "receive"
                   \* a handler in flight ends by returning or raising, and
                   \* the delete is issued for the one that returned
                   /\ (handler[w] = "running" /\ handler'[w] # "running")
                         => handler'[w] \in {"returned", "raised"}
                   /\ (pc[w] = "deleteProcessed" /\ pc'[w] \notin {"deleteProcessed", "exited"})
                         => (handler[w] = "returned" /\ Issued(w, {"DeleteMessage"})')
                   /\ (handler[w] = "running" /\ handler'[w] = "raised")
                         => (pc'[w] = "loop" /\ ~Issued(w, {"DeleteMessage"})')]_vars
    /\ \A w \in Workers :
          StopWhileRunning(w) ~> (pc[w] \in {"stopped", "exited"})

\* the loop has ended by its test of the flag, after the iteration during
\* which stop() was called had committed its tenant and deleted its event
C21_Witness ==
    \E w \in Workers :
        /\ signal[w] = "SIGTERM"
        /\ pc[w] = "stopped"
        /\ message[w] # 0
        /\ Committed(w)
        /\ handler[w] = "returned"
        /\ sqs[message[w]].state = "deleted"

(***************************************************************************)
(* C22: once shutdown has been requested the loop begins no new receive    *)
(* and starts no new handler invocation, whenever the request arrives,     *)
(* startup included.                                                       *)
(***************************************************************************)
C22_NoNewWorkAfterShutdown ==
    [][\A w \in Workers :
          signal[w] = "SIGTERM" =>
              /\ (pc[w] = "loop" /\ pc'[w] # "loop") => pc'[w] \in {"stopped", "exited"}
              /\ handler'[w] = "running" => handler[w] = "running"]_vars

(***************************************************************************)
(* C23: the visibility window requested at receive covers the longest      *)
(* provisioning sequence, polling included, so that an event is never      *)
(* redelivered while the handler of its earlier delivery is still running. *)
(***************************************************************************)
C23_NoRedeliveryWhileHandling ==
    \A w1, w2 \in Workers :
        ( /\ w1 # w2
          /\ handler[w1] = "running"
          /\ message[w1] # 0 )
        => ~(message[w2] = message[w1] /\ pc[w2] \in {"parse", "getTenant"})

(***************************************************************************)
(* C24: the reference and the ready status are written together: in no     *)
(* reachable state does a record carry a reference this subsystem wrote    *)
(* without the status ready, and no write makes a record ready without a   *)
(* reference.                                                              *)
(***************************************************************************)
\* the reference of r was written by this subsystem
OwnReference(r) == r.opensearch_arn = ArnOf(getCollectionName(r.slug))

C24_ReferenceIffReady ==
    [][\A r2 \in accreda_tenants' :
          /\ OwnReference(r2) => r2.opensearch_status = "ready"
          /\ \A r \in accreda_tenants :
                (r.id = r2.id /\ r.opensearch_status # "ready"
                              /\ r2.opensearch_status = "ready")
                    => r2.opensearch_arn # NULL]_vars

(***************************************************************************)
(* C25: the validation accepts a tenant if and only if the record exists,  *)
(* its domain status is active, its reference is empty and its resource    *)
(* status is not ready, for every combination of the four.                 *)
(***************************************************************************)
\* the eligibility rule in the words of the specification
Eligible(rows) ==
    /\ Len(rows) = 1
    /\ rows[1].status = "active"
    /\ rows[1].opensearch_arn = NULL
    /\ rows[1].opensearch_status # "ready"

\* the handling of w went on to the provisioning sequence after its lookup
Accepted(w) == pc[w] = "encryption" \/ Issued(w, ProviderOps)

\* the validation accepts exactly the eligible results of a lookup
ValidationIsEligibility ==
    \A rows \in {<<>>} \cup {<<r>> : r \in TenantRows} :
        validateTenantForProvisioning(rows) <=> Eligible(rows)

C25_EligibilityExact ==
    /\ ValidationIsEligibility
    /\ \A w \in Workers :
          Answered(w, {"getTenant"}, {"ok"}) =>
              /\ Accepted(w) <=> Eligible(tenant[w])
              /\ ~Accepted(w) => handler[w] = "returned"

\* a suspended tenant, uninitialized and without a reference, was rejected
C25_Witness ==
    \E w \in Workers :
        /\ Answered(w, {"getTenant"}, {"ok"})
        /\ Len(tenant[w]) = 1
        /\ tenant[w][1].status = "suspended"
        /\ tenant[w][1].opensearch_arn = NULL
        /\ tenant[w][1].opensearch_status = "initializing"
        /\ ~Accepted(w)
        /\ handler[w] = "returned"

(***************************************************************************)
(* C26: at most one handler invocation is in flight in a worker: a receive *)
(* returns zero or one event, and the loop begins its next receive only    *)
(* when the handler of the current event has returned or raised and the    *)
(* acknowledgment has been decided.                                        *)
(***************************************************************************)
HandlerSteps == {"getTenant", "encryption", "network", "collection", "access",
                 "poll", "commit", "markFailed"}

Prefix == <<"a", "c", "c", "r", "e", "d", "a", "-">>

\* the names the provider calls of a run for the slug may carry
NamesFor(slug) ==
    LET name == Prefix \o slug IN
    {name, encryptionName(name), networkName(name), accessName(name)}

C27_OneNamePerSlug ==
    /\ \A w \in Workers :
          Issued(w, ProviderOps) =>
              /\ collectionName[w] = Prefix \o tenant[w][1].slug
              /\ \A i \in CallsOf(w, ProviderOps) :
                    /\ calls[w][i].name \in NamesFor(tenant[w][1].slug)
                    /\ StepOf(w, calls[w][i]) \in 2..6
    \* whatever the number of deliveries, one slug has one collection and one
    \* policy of each kind
    /\ \A c \in collections :
          \E slug \in {AcmeSlug, OtherSlug} : c.name = Prefix \o slug
    /\ \A p \in policies :
          \E slug \in {AcmeSlug, OtherSlug} : p.name \in NamesFor(slug)
    /\ Cardinality(collections) <= 1
    /\ Cardinality(policies) <= 3

\* a redelivery found the encryption policy of an earlier delivery under
\* the name it derived itself
C27_Witness ==
    \E w \in Workers :
        /\ Answered(w, {"CreateSecurityPolicy"}, {"ConflictException"})
        /\ collectionName[w] = Prefix \o AcmeSlug
        /\ Policy("encryption", encryptionName(Prefix \o AcmeSlug)) \in policies

(***************************************************************************)
(* C28: for every valid event handled for an eligible tenant, the resource *)
(* provisioned is named with the fixed prefix followed by the tenant_slug  *)
(* carried by that event.                                                  *)
(***************************************************************************)
C28_NamedByEventSlug ==
    \A w \in Workers :
        \A i \in CallsOf(w, ProviderOps) :
            calls[w][i].name \in NamesFor(messageBody[w].tenant_slug)

(***************************************************************************)
(* C29: startup ordering and exit status.  The consumer loop issues no     *)
(* receive unless the data-store initialisation has completed              *)
(* successfully; a failed initialisation ends the process with a non-zero  *)
(* code before any event was received; a graceful shutdown that completes  *)
(* (the pool is closed) exits with code 0.                                 *)
(***************************************************************************)
C29_StartupOrderAndExitStatus ==
    [][\A w \in Workers :
          \* the loop runs, and a receive is issued, with the pool in place
          /\ pc'[w] \notin {"main", "exited"} => pool'[w]
          /\ pc[w] = "receive" /\ pc'[w] \notin {"receive", "exited"} => pool[w]
          \* main is left without a pool only by the end of the process,
          \* nothing received; without a signal the code is 1
          /\ pc[w] = "main" /\ pc'[w] # "main" /\ ~pool'[w] =>
                /\ pc'[w] = "exited"
                /\ calls'[w] = <<>> /\ message'[w] = 0
                /\ \A m \in MsgIds : sqs'[m].state = "visible"
                /\ signal[w] = "none" => exitCode'[w] = 1
                /\ exitCode'[w] \in {0, 1}
          \* code 0 is the code of a shutdown, and a shutdown that has
          \* closed the pool of a started consumer has code 0
          /\ exitCode'[w] = 0 => signal'[w] = "SIGTERM" /\ ~pool'[w]
          /\ (/\ pc[w] \notin {"main", "exited"} /\ pc'[w] = "exited"
              /\ ~pool'[w]) => exitCode'[w] = 0
          /\ pc'[w] = "exited" <=> exitCode'[w] # -1]_vars

\* a consumer that has received from the queue is shut down and exits 0
C29_Witness ==
    \E w \in Workers :
        /\ pc[w] = "exited" /\ exitCode[w] = 0
        /\ signal[w] = "SIGTERM" /\ ~pool[w]
        /\ Issued(w, {"ReceiveMessage"})

(***************************************************************************)
(* C30: a tenant whose resource status is failed and whose reference is    *)
(* empty remains eligible: a delivery of its event passes the validation   *)
(* and enters the provisioning sequence, and the commit of that run moves  *)
(* the tenant from failed to ready.                                        *)
(***************************************************************************)
\* the lookup of w returned an active tenant, failed and without reference
FailedLookup(w) ==
    /\ Answered(w, {"getTenant"}, {"ok"})
    /\ Len(tenant[w]) = 1
    /\ tenant[w][1].status = "active"
    /\ tenant[w][1].opensearch_arn = NULL
    /\ tenant[w][1].opensearch_status = "failed"

C30_FailedIsRetried ==
    [][\A w \in Workers :
          /\ FailedLookup(w)' => Accepted(w)'
          /\ (FailedLookup(w) /\ ~Committed(w) /\ Committed(w)') =>
                /\ \A r \in RowsOf(w) : r.opensearch_status = "failed"
                /\ RowsOf(w)' # {}
                /\ \A r \in RowsOf(w)' : ReadyRow(r)]_vars

\* a redelivery found the tenant failed and the policy of the earlier run
\* in place, and its commit made the tenant ready
C30_Witness ==
    \E w \in Workers :
        /\ FailedLookup(w)
        /\ Answered(w, {"CreateSecurityPolicy", "CreateAccessPolicy"},
                    {"ConflictException"})
        /\ Committed(w)
        /\ RowsOf(w) # {}
        /\ \A r \in RowsOf(w) : ReadyRow(r)

(***************************************************************************)
(* C31: a tenant record is set to ready only after a status query of the   *)
(* same handling observed the collection in the active state, and the      *)
(* reference committed is the one that observation reported; a wait that   *)
(* ended in the failed status, in budget exhaustion or in an error is      *)
(* never followed by a commit.                                             *)
(***************************************************************************)
\* the last call of w so far
LastCall(w) == calls[w][Len(calls[w])]

\* the wait of w has just returned: its last query reported the collection
\* of the handling ACTIVE, and that report is what the handler holds
ObservedActive(w) ==
    /\ calls[w] # <<>>
    /\ LastCall(w) = Call("BatchGetCollection", collectionName[w])
    /\ response[w] = "ACTIVE"
    /\ Len(collection[w]) = 1
    /\ collection[w][1].name = collectionName[w]
    /\ collection[w][1].status = "ACTIVE"
    /\ collection[w][1].arn # NULL

C31_ReadyOnlyAfterActive ==
    [][/\ \A w \in Workers :
             \* the commit step is reached from an observation of ACTIVE only,
             \* and the observation is the provider's own record
             /\ pc'[w] = "commit" => ObservedActive(w)'
             /\ (pc[w] = "poll" /\ pc'[w] = "commit") =>
                    collection'[w][1] \in collections
             \* a wait that ends otherwise ends the handling in its catch
             /\ (pc[w] = "poll" /\ pc'[w] \notin {"poll", "commit", "exited"}) =>
                    /\ pc'[w] = "markFailed"
                    /\ error'[w] = "DidNotBecomeActive"
                    /\ response'[w] # "ACTIVE"
             /\ error'[w] = "DidNotBecomeActive" =>
                    ~Issued(w, {"updateTenantOpenSearch"})'
             /\ Issued(w, {"updateTenantOpenSearch"})' =>
                    /\ Answered(w, {"BatchGetCollection"}, {"ACTIVE"})'
                    /\ Polls(w)' <= maxAttempts
       \* a row becomes ready by the commit of a handling that observed
       \* ACTIVE, with the reference of the observation
       /\ \A r \in accreda_tenants' \ accreda_tenants :
             r.opensearch_status = "ready" =>
                \E w \in Workers :
                    /\ pc[w] = "commit"
                    /\ ObservedActive(w)
                    /\ r.opensearch_arn = collection[w][1].arn
                    /\ r.id = messageBody[w].tenant_id]_vars

\* a handling whose wait met an error and a collection still being created
\* before it observed ACTIVE has committed the reference observed
C31_Witness ==
    \E w \in Workers :
        /\ Committed(w)
        /\ Answered(w, {"BatchGetCollection"}, {"error"})
        /\ Answered(w, {"BatchGetCollection"}, {"CREATING"})
        /\ Answered(w, {"BatchGetCollection"}, {"ACTIVE"})
        /\ \E r \in RowsOf(w) :
              ReadyRow(r) /\ r.opensearch_arn = collection[w][1].arn

(***************************************************************************)
(* C32: no valid event is lost.  When the loop deletes a structurally      *)
(* valid event, the tenant it names was, in that same handling, either     *)
(* found ineligible or committed as ready with a non-empty reference; an   *)
(* event is never deleted while its eligible tenant is unprovisioned.      *)
(***************************************************************************)
\* this step of w issues the queue delete of the iteration
DeleteIssued(w) ==
    /\ ~Issued(w, {"DeleteMessage"})
    /\ Issued(w, {"DeleteMessage"})'

C32_NoValidEventLost ==
    [][/\ \A w \in Workers :
             /\ (DeleteIssued(w) /\ ValidDelivery(w)) =>
                   /\ handler[w] = "returned"
                   /\ Rejected(w) \/ Committed(w)
                   /\ \A r \in RowsOf(w) : ~Eligible(<<r>>)
             \* the commit that precedes the delete wrote ready and a
             \* reference
             /\ (~Committed(w) /\ Committed(w)' /\ ValidDelivery(w)) =>
                   /\ RowsOf(w)' # {}
                   /\ \A r \in RowsOf(w)' : ReadyRow(r)
       \* an event leaves the queue by the delete of a loop that holds it
       /\ \A m \in MsgIds :
             (sqs[m].state # "deleted" /\ sqs'[m].state = "deleted") =>
                \E w \in Workers : message[w] = m /\ DeleteIssued(w)]_vars

\* the event of an eligible tenant is deleted after its commit
C32_Witness ==
    \E w \in Workers :
        /\ ValidDelivery(w)
        /\ Eligible(tenant[w])
        /\ Committed(w)
        /\ Answered(w, {"DeleteMessage"}, {"ok"})
        /\ sqs[message[w]].state = "deleted"
        /\ \E r \in RowsOf(w) : ReadyRow(r)

(***************************************************************************)
(* C33: the consumer loop exits only because the stop flag was set.  No    *)
(* exception of the receive call, of the parsing or validation, of the     *)
(* handler or of the delete call escapes the loop or ends it, and after    *)
(* such an exception the loop goes on to a further receive while the flag  *)
(* is still set to run.                                                    *)
(***************************************************************************)
\* this step of w raises an exception inside the loop
Raises(w) ==
    \/ error'[w] # error[w] /\ error'[w] # "none"
    \/ handler[w] = "running" /\ handler'[w] = "raised"

\* an exception was caught and the loop has not yet tested its flag again
Caught(w) ==
    /\ error[w] # "none"
    /\ pc[w] \in {"markFailed", "backoff", "loop"}

C33_LoopEndsByFlagOnly ==
    /\ [][\A w \in Workers :
             \* the loop is left at its test, with the flag cleared
             /\ (pc[w] # "stopped" /\ pc'[w] = "stopped") =>
                    pc[w] = "loop" /\ ~isPolling[w]
             /\ (pc[w] = "loop" /\ pc'[w] # "loop") =>
                    pc'[w] = IF isPolling[w] THEN "receive" ELSE "stopped"
             \* an exception stays inside the loop
             /\ Raises(w) =>
                    /\ pc[w] \notin {"main", "startPolling", "stopped", "exited"}
                    /\ pc'[w] \in {"markFailed", "backoff", "loop"}
                    /\ UNCHANGED <<isPolling[w], exitCode[w]>>
             /\ (Caught(w) /\ pc'[w] # pc[w]) =>
                    \/ pc'[w] \in {"loop", "receive"}
                    \/ pc'[w] = "stopped" /\ ~isPolling[w]
                    \/ pc'[w] = "exited" /\ signal[w] = "SIGTERM"
             \* the process of a started loop ends by the shutdown only
             /\ (pc[w] \notin {"main", "exited"} /\ pc'[w] = "exited") =>
                    signal[w] = "SIGTERM"]_vars
    \* after an exception the loop comes to a further receive, unless the
    \* flag was cleared or the process was ended meanwhile
    /\ \A w \in Workers :
          Caught(w) ~> \/ pc[w] = "receive"
                       \/ pc[w] = "stopped" /\ ~isPolling[w]
                       \/ pc[w] = "exited" /\ signal[w] = "SIGTERM"

\* the loop is at a further receive after the handler of the event before
\* raised, the flag still set
C33_Witness ==
    \E w \in Workers :
        /\ pc[w] = "receive"
        /\ isPolling[w]
        /\ handler[w] = "raised"
        /\ error[w] # "none"
        /\ signal[w] = "none"

(***************************************************************************)
(* C34: the store client obtained by updateTenantOpenSearch is released    *)
(* back to the pool exactly once on every path of the call (the commit     *)
(* succeeded, zero rows affected, a statement raised, the rollback itself  *)
(* raised), and no statement is issued on it after the release.            *)
(***************************************************************************)
Releases(t) == {i \in 1..Len(t) : t[i].op = "release"}
Raised(t) == {i \in 1..Len(t) : t[i].result = "error"}

\* a client was obtained, released once, and the release is the last thing
\* done with it
ReleasedOnceAtEnd(t) ==
    /\ Len(t) > 1
    /\ t[1].op = "connect"
    /\ Releases(t) = {Len(t)}

C34_ClientReleasedOnce ==
    [][\A w \in Workers :
          \* a client that was obtained has been released, once and last
          /\ client'[w] # <<>> => ReleasedOnceAtEnd(client'[w])
          \* the paths of the call
          /\ (pc[w] = "commit" /\ pc'[w] \notin {"commit", "exited"}) =>
                /\ Issued(w, {"updateTenantOpenSearch"})'
                /\ response'[w] = "ok" =>
                      /\ ReleasedOnceAtEnd(client'[w])
                      /\ Raised(client'[w]) = {}
                /\ response'[w] = "zero rows" =>
                      ReleasedOnceAtEnd(client'[w])
                /\ response'[w] = "error" =>
                      \/ client'[w] = <<>>
                      \/ /\ ReleasedOnceAtEnd(client'[w])
                         /\ Raised(client'[w]) # {}
          \* the client is not used outside the call
          /\ client'[w] # client[w] =>
                \/ pc[w] = "commit"
                \/ client'[w] = <<>>]_vars

\* the UPDATE found no row and the ROLLBACK of the catch block raised: the
\* client is released all the same
C34_Witness ==
    \E w \in Workers :
        /\ Answered(w, {"updateTenantOpenSearch"}, {"zero rows"})
        /\ client[w] = <<Did("connect", "ok"), Did("BEGIN", "ok"),
                         Did("UPDATE", "ok"), Did("ROLLBACK", "ok"),
                         Did("ROLLBACK", "error"), Did("release", "ok")>>
        /\ error[w] = "StoreError"

====
